---- MODULE Spec2Model ----
(***************************************************************************)
(* A model of eksup's analysis engine, src/src/checks.rs: the orchestrator *)
(* `execute`, the version utilities and the five checks.                   *)
(*                                                                         *)
(* A Rust String is a sequence of one-character strings, so that split,    *)
(* replace, parse and format are computed and not assumed.  Option and     *)
(* Result values are tagged records.  A panic (unwrap of None, index out   *)
(* of bounds) is its own outcome: it unwinds through every caller and is   *)
(* never an Err value the `?` operator could hand to the orchestrator.     *)
(***************************************************************************)
EXTENDS Integers, Sequences, FiniteSets

\* Longest version string handed to the version utilities on their own.
MaxStr == 6
\* Longest node list, and longest compute-construct collection.
MaxNodes == 2
MaxGroups == 2
\* Longest add-on list.
MaxAddons == 2

-----------------------------------------------------------------------------
(* Option<T>, Result<T, E> and a panic.                                     *)

None == [tag |-> "None"]
Some(v) == [tag |-> "Some", val |-> v]
Ok(v) == [tag |-> "Ok", val |-> v]
Err(e) == [tag |-> "Err", err |-> e]
Panic(m) == [tag |-> "Panic", msg |-> m]
\* A value not yet computed (a `let` not yet reached).
Unset == [tag |-> "Unset"]

IsNone(o) == o.tag = "None"
IsSome(o) == o.tag = "Some"
IsOk(r) == r.tag = "Ok"
IsErr(r) == r.tag = "Err"
IsPanic(r) == r.tag = "Panic"

-----------------------------------------------------------------------------
(* Strings.                                                                 *)

Digits == {"0", "1", "2", "3", "4", "5", "6", "7", "8", "9"}

DigitVal(c) ==
  CASE c = "0" -> 0 [] c = "1" -> 1 [] c = "2" -> 2 [] c = "3" -> 3
    [] c = "4" -> 4 [] c = "5" -> 5 [] c = "6" -> 6 [] c = "7" -> 7
    [] c = "8" -> 8 [] c = "9" -> 9

DigitChar(d) ==
  CASE d = 0 -> "0" [] d = 1 -> "1" [] d = 2 -> "2" [] d = 3 -> "3"
    [] d = 4 -> "4" [] d = 5 -> "5" [] d = 6 -> "6" [] d = 7 -> "7"
    [] d = 8 -> "8" [] d = 9 -> "9"

\* str::split(sep): the segments between separators; n separators give n + 1
\* segments, so "" gives [""] and "a," gives ["a", ""].
RECURSIVE SplitFrom(_, _, _, _, _)
SplitFrom(s, sep, i, cur, acc) ==
  IF i > Len(s) THEN Append(acc, cur)
  ELSE IF s[i] = sep THEN SplitFrom(s, sep, i + 1, <<>>, Append(acc, cur))
  ELSE SplitFrom(s, sep, i + 1, Append(cur, s[i]), acc)

Split(s, sep) == SplitFrom(s, sep, 1, <<>>, <<>>)

\* str::replace(from, ""): every occurrence of the character removed.
Remove(s, c) == SelectSeq(s, LAMBDA x : x # c)

(* A u32 is held as its decimal numeral without leading zeros: the values   *)
(* of the type reach 4294967295, which the model checker's own integers do  *)
(* not, and equality, order and successor are all decided on numerals.      *)

\* u32::MAX.
U32Max == <<"4", "2", "9", "4", "9", "6", "7", "2", "9", "5">>

RECURSIVE StripZeros(_)
StripZeros(s) ==
  IF Len(s) > 1 /\ s[1] = "0" THEN StripZeros(Tail(s)) ELSE s

\* a < b, for numerals.
NumLess(a, b) ==
  \/ Len(a) < Len(b)
  \/ /\ Len(a) = Len(b)
     /\ \E i \in 1..Len(a) :
          /\ DigitVal(a[i]) < DigitVal(b[i])
          /\ \A j \in 1..(i - 1) : a[j] = b[j]

\* n + 1, for a numeral.
RECURSIVE NumSucc(_)
NumSucc(n) ==
  IF n = <<>> THEN <<"1">>
  ELSE IF n[Len(n)] = "9" THEN Append(NumSucc(SubSeq(n, 1, Len(n) - 1)), "0")
  ELSE Append(SubSeq(n, 1, Len(n) - 1), DigitChar(DigitVal(n[Len(n)]) + 1))

\* The digits of a u32: Err on a character that is no digit and on a value
\* above u32::MAX.
ParseDigits(s) ==
  IF \E i \in 1..Len(s) : s[i] \notin Digits THEN Err("ParseIntError")
  ELSE IF NumLess(U32Max, StripZeros(s)) THEN Err("ParseIntError")
  ELSE Ok(StripZeros(s))

\* str::parse::<u32>(): empty is an error, a lone sign is an error, one
\* leading '+' is accepted, '-' is not a digit of an unsigned type.
ParseU32(s) ==
  IF s = <<>> THEN Err("ParseIntError")
  ELSE IF Len(s) = 1 /\ s[1] \in {"+", "-"} THEN Err("ParseIntError")
  ELSE IF s[1] = "+" THEN ParseDigits(Tail(s))
  ELSE ParseDigits(s)

\* Display of a u32, as format!("{}") writes it: its numeral.
FormatU32(n) == n

-----------------------------------------------------------------------------
(* Version utilities, checks.rs:52-71.                                      *)

\* version[1] indexes the vector: with fewer than two segments it panics.
parse_minor_version(version) ==
  LET segs == Split(version, ".")
  IN  IF Len(segs) < 2 THEN Panic("index out of bounds")
      ELSE LET n == ParseU32(segs[2])
           IN  IF IsErr(n) THEN n ELSE Ok(n.val)

\* A mutant: the 'v' of the major segment is kept.
normalize_version_keep_v(version) ==
  LET segs == Split(version, ".")
  IN  IF Len(segs) < 2 THEN Panic("index out of bounds")
      ELSE Ok(segs[1] \o <<".">> \o segs[2])

normalize_version(version) ==
  LET segs == Split(version, ".")
  IN  IF Len(segs) < 2 THEN Panic("index out of bounds")
      ELSE Ok(Remove(segs[1], "v") \o <<".">> \o segs[2])

-----------------------------------------------------------------------------
(* The objects the collectors hand to the engine.  The SDK types make every *)
(* field an Option; the fields that name an object (a node's name, a group's*)
(* name and subnets, an add-on's name and version, a subnet row's columns)  *)
(* are filled in by the services for every object they return and are Some  *)
(* in every object drawn here, while a Node's status and node_info, a       *)
(* health block, an issue list, an issue's code and message may be absent.  *)

\* "n1", "g2", ...: the i-th object's name.
NameOf(prefix, i) == <<prefix, DigitChar(i)>>

V_1_23 == <<"1", ".", "2", "3">>
V_1_22 == <<"1", ".", "2", "2">>
V_v1_23_7_eks == <<"v", "1", ".", "2", "3", ".", "7", "-", "e", "k", "s">>
V_v1_22_9 == <<"v", "1", ".", "2", "2", ".", "9">>
V_1_x == <<"1", ".", "x">>
V_v1 == <<"v", "1">>
V_2_5 == <<"2", ".", "5">>

\* Node (k8s_openapi), the fields checks.rs:100-114 reads.
NodeInfo(kubelet_version) ==
  [kubelet_version |-> kubelet_version,
   container_runtime_version |-> "containerd://1.6.6",
   kernel_version |-> "5.4.209",
   kube_proxy_version |-> kubelet_version]

KubeletVersions == {V_v1_23_7_eks, V_v1_22_9, V_1_x, V_v1}

NodeStatusChoices ==
  {None, Some([node_info |-> None])}
    \cup {Some([node_info |-> Some(NodeInfo(v))]) : v \in KubeletVersions}

Node(i, status) == [metadata |-> [name |-> Some(NameOf("n", i))], status |-> status]

\* Every list of n objects built by `make` from the variants in `choices`.
ListsOf(n, choices, make(_, _)) ==
  {[i \in 1..n |-> make(i, f[i])] : f \in [1..n -> choices]}

ListsUpTo(max, choices, make(_, _)) ==
  UNION {ListsOf(n, choices, make) : n \in 0..max}

ControlPlaneVersions == {V_1_22, V_1_23, V_1_x, V_v1}

\* Subnet identifiers.
SubnetA == <<"a">>
SubnetB == <<"b">>
SubnetC == <<"c">>

\* Nodegroup (aws_sdk_eks), the fields checks.rs:185 and 249-254 read.
Issue(code, message) == [code |-> code, message |-> message]

IssueChoices ==
  {Issue(Some("AccessDenied"), Some("m1")),
   Issue(None, None),
   Issue(Some("Ec2SubnetNotFound"), None)}

MaxIssues == 2

IssueLists == ListsUpTo(MaxIssues, IssueChoices, LAMBDA i, c : c)

HealthChoices ==
  {None, Some([issues |-> None])} \cup {Some([issues |-> Some(l)]) : l \in IssueLists}

Nodegroup(i, subnets, health) ==
  [nodegroup_name |-> Some(NameOf("g", i)), subnets |-> Some(subnets), health |-> health]

\* AutoScalingGroup (aws_sdk_autoscaling), the field checks.rs:195 reads.
AutoScalingGroup(i, vpc_zone_identifier) ==
  [auto_scaling_group_name |-> Some(NameOf("s", i)),
   vpc_zone_identifier |-> Some(vpc_zone_identifier)]

\* FargateProfile (aws_sdk_eks), the field checks.rs:205 reads.
FargateProfile(i, subnets) ==
  [fargate_profile_name |-> Some(NameOf("f", i)), subnets |-> Some(subnets)]

\* Addon (aws_sdk_eks), the fields checks.rs:300-315 read.
Addon(i, health) ==
  [addon_name |-> Some(NameOf("a", i)),
   addon_version |-> Some(<<"v", "1", ".", "2", ".", "0">>),
   health |-> health]

AddonHealthChoices ==
  {None, Some([issues |-> None]), Some([issues |-> Some(<<[code |-> Some("AccessDenied")]>>)])}

\* Cluster (aws_sdk_eks), the fields checks.rs:23-24 and 145-150 read.
Cluster(version, subnet_ids) ==
  [name |-> Some("cluster"),
   version |-> Some(version),
   resources_vpc_config |-> Some([subnet_ids |-> Some(subnet_ids)])]

-----------------------------------------------------------------------------
(* The collectors of the aws module, which is not among the sources: what   *)
(* the engine needs of them is that a call either fails or answers.         *)

CollectorFailure == Err("CollectorFailure")

\* One call of a collector, as the engine makes it, and what it answered.
Call(fn, arg, answer) == [fn |-> fn, arg |-> arg, answer |-> answer]

\* A row of aws::get_subnets for one identifier.
AwsSubnet(id) ==
  [subnet_id |-> Some(id),
   availability_zone |-> Some("us-east-1a"),
   availability_zone_id |-> Some("use1-az1"),
   available_ip_address_count |-> Some(100),
   cidr_block |-> Some("10.0.0.0/24")]

\* aws::get_subnets: the rows of the identifiers asked for, in that order.
get_subnets(subnet_ids, fail) ==
  IF fail THEN CollectorFailure
  ELSE Ok([i \in 1..Len(subnet_ids) |-> AwsSubnet(subnet_ids[i])])

\* aws::get_addon_versions: the compatibility data of one add-on for one
\* Kubernetes version.
get_addon_versions(name, kubernetes_version, fail) ==
  IF fail THEN CollectorFailure
  ELSE Ok([addon |-> name, kubernetes_version |-> kubernetes_version])

-----------------------------------------------------------------------------
(* The checks, checks.rs:92-330.  A check is a function of its arguments    *)
(* and of what the collectors answer while it runs; it yields its return    *)
(* value `ret`, the collector calls it made and the lines it printed.       *)

Printed(label, data) == [label |-> label, data |-> data]

Outcome(ret, calls, out) == [ret |-> ret, calls |-> calls, out |-> out]

UnwrapNone == Panic("unwrap on None")

\* The struct literal of checks.rs:107-115, its fields evaluated in order.
NodeDetail(node, node_info, control_plane_version) ==
  IF IsNone(node.metadata.name) THEN UnwrapNone
  ELSE LET kubernetes_version == normalize_version(node_info.kubelet_version)
       IN  IF ~IsOk(kubernetes_version) THEN kubernetes_version
           ELSE Ok([name |-> node.metadata.name.val,
                    container_runtime |-> node_info.container_runtime_version,
                    kernel_version |-> node_info.kernel_version,
                    kube_proxy_version |-> node_info.kube_proxy_version,
                    kublet_version |-> node_info.kubelet_version,
                    kubernetes_version |-> kubernetes_version.val,
                    control_plane_version |-> control_plane_version])

\* A mutant: a node is reported when its minor version is below the control
\* plane's, and not when it is above.
SkewedLower(control_plane_minor_version, node_minor_version) ==
  NumLess(node_minor_version, control_plane_minor_version)

\* checks.rs:106.
Skewed(control_plane_minor_version, node_minor_version) ==
  control_plane_minor_version # node_minor_version

\* The loop of checks.rs:100-118 from node i on: Ok(skewed) when it ends, or
\* the panic or error that leaves it.
RECURSIVE SkewLoop(_, _, _, _, _)
SkewLoop(control_plane_version, control_plane_minor_version, nodes, i, skewed) ==
  IF i > Len(nodes) THEN Ok(skewed)
  ELSE
    LET node == nodes[i] IN
    IF IsNone(node.status) THEN UnwrapNone
    ELSE IF IsNone(node.status.val.node_info) THEN UnwrapNone
    ELSE
      LET node_info == node.status.val.node_info.val
          node_minor_version == parse_minor_version(node_info.kubelet_version)
      IN  IF ~IsOk(node_minor_version) THEN node_minor_version
          ELSE IF Skewed(control_plane_minor_version, node_minor_version.val)
          THEN LET node_detail == NodeDetail(node, node_info, control_plane_version)
               IN  IF ~IsOk(node_detail) THEN node_detail
                   ELSE SkewLoop(control_plane_version, control_plane_minor_version,
                                 nodes, i + 1, Append(skewed, node_detail.val))
          ELSE SkewLoop(control_plane_version, control_plane_minor_version,
                        nodes, i + 1, skewed)

\* checks.rs:92-127.
version_skew(control_plane_version, nodes) ==
  LET control_plane_minor_version == parse_minor_version(control_plane_version)
  IN  IF ~IsOk(control_plane_minor_version)
      THEN Outcome(control_plane_minor_version, <<>>, <<>>)
      ELSE
        LET skewed == SkewLoop(control_plane_version, control_plane_minor_version.val,
                               nodes, 1, <<>>)
        IN  IF ~IsOk(skewed) THEN Outcome(skewed, <<>>, <<>>)
            ELSE IF skewed.val = <<>> THEN Outcome(Ok(None), <<>>, <<>>)
            ELSE Outcome(Ok(Some(skewed.val)), <<>>,
                         <<Printed("Skewed node versions", skewed.val)>>)

\* The Subnet records of checks.rs:155-165 and 216-226.
SubnetOf(row) ==
  [id |-> row.subnet_id.val,
   availability_zone |-> row.availability_zone.val,
   availability_zone_id |-> row.availability_zone_id.val,
   available_ips |-> row.available_ip_address_count.val,
   cidr_block |-> row.cidr_block.val]

RowComplete(row) ==
  /\ IsSome(row.subnet_id)
  /\ IsSome(row.availability_zone)
  /\ IsSome(row.availability_zone_id)
  /\ IsSome(row.available_ip_address_count)
  /\ IsSome(row.cidr_block)

Subnets(aws_subnets) ==
  IF \E i \in 1..Len(aws_subnets) : ~RowComplete(aws_subnets[i]) THEN UnwrapNone
  ELSE Ok([i \in 1..Len(aws_subnets) |-> SubnetOf(aws_subnets[i])])

\* checks.rs:141-170; `fail` is whether the subnet query fails.
ips_available_for_control_plane(cluster, fail) ==
  IF IsNone(cluster.resources_vpc_config) THEN Outcome(UnwrapNone, <<>>, <<>>)
  ELSE IF IsNone(cluster.resources_vpc_config.val.subnet_ids)
  THEN Outcome(UnwrapNone, <<>>, <<>>)
  ELSE
    LET subnet_ids == cluster.resources_vpc_config.val.subnet_ids.val
        aws_subnets == get_subnets(subnet_ids, fail)
        call == <<Call("get_subnets", [subnet_ids |-> subnet_ids], aws_subnets)>>
    IN  IF ~IsOk(aws_subnets) THEN Outcome(aws_subnets, call, <<>>)
        ELSE LET subnets == Subnets(aws_subnets.val)
             IN  IF ~IsOk(subnets) THEN Outcome(subnets, call, <<>>)
                 ELSE Outcome(subnets, call,
                              <<Printed("Conctrol plane subnets", subnets.val)>>)

Range(seq) == {seq[i] : i \in 1..Len(seq)}

\* A mutant: the comma-delimited identifier string is inserted whole.
SelfManagedSubnetsUnsplit(group) == <<group.vpc_zone_identifier.val>>

\* checks.rs:196.
SelfManagedSubnets(group) == Split(group.vpc_zone_identifier.val, ",")

\* The loops of checks.rs:184-189 and 204-209: every subnet of every group
\* inserted into the set; a group without subnets panics.
InsertSubnets(subnet_ids, groups) ==
  IF \E i \in 1..Len(groups) : IsNone(groups[i].subnets) THEN UnwrapNone
  ELSE Ok(subnet_ids \cup UNION {Range(groups[i].subnets.val) : i \in 1..Len(groups)})

\* The loop of checks.rs:194-199.
InsertSelfManagedSubnets(subnet_ids, groups) ==
  IF \E i \in 1..Len(groups) : IsNone(groups[i].vpc_zone_identifier) THEN UnwrapNone
  ELSE Ok(subnet_ids \cup UNION {Range(SelfManagedSubnets(groups[i])) : i \in 1..Len(groups)})

\* checks.rs:180-210: the HashSet of subnet identifiers, or the panic.
DataPlaneSubnetIds(eks_managed_node_groups, fargate_profiles, self_managed_node_groups) ==
  LET managed == IF IsSome(eks_managed_node_groups)
                 THEN InsertSubnets({}, eks_managed_node_groups.val)
                 ELSE Ok({})
  IN  IF ~IsOk(managed) THEN managed
      ELSE
        LET self_managed == IF IsSome(self_managed_node_groups)
                            THEN InsertSelfManagedSubnets(managed.val,
                                                          self_managed_node_groups.val)
                            ELSE managed
        IN  IF ~IsOk(self_managed) THEN self_managed
            ELSE IF IsSome(fargate_profiles)
                 THEN InsertSubnets(self_managed.val, fargate_profiles.val)
                 ELSE self_managed

\* subnet_ids.into_iter().collect(), checks.rs:213: the elements of the set,
\* each once, in an order the HashSet does not specify.
Collect(set) ==
  {order \in [1..Cardinality(set) -> set] :
     \A i, j \in 1..Cardinality(set) : i # j => order[i] # order[j]}

\* The vectors the query of checks.rs:213 may be sent with.
QueryOrders(eks_managed_node_groups, fargate_profiles, self_managed_node_groups) ==
  LET subnet_ids == DataPlaneSubnetIds(eks_managed_node_groups, fargate_profiles,
                                       self_managed_node_groups)
  IN  IF IsOk(subnet_ids) THEN Collect(subnet_ids.val) ELSE {<<>>}

\* A mutant: a cluster without any compute construct is refused.
ips_available_for_data_plane_requires_compute(eks_managed_node_groups, fargate_profiles, self_managed_node_groups, order, fail) ==
  LET subnet_ids == DataPlaneSubnetIds(eks_managed_node_groups, fargate_profiles,
                                       self_managed_node_groups)
  IN  IF ~IsOk(subnet_ids) THEN Outcome(subnet_ids, <<>>, <<>>)
      ELSE IF subnet_ids.val = {} THEN Outcome(Err("NoComputeConstructs"), <<>>, <<>>)
      ELSE
        LET aws_subnets == get_subnets(order, fail)
            call == <<Call("get_subnets", [subnet_ids |-> order], aws_subnets)>>
        IN  IF ~IsOk(aws_subnets) THEN Outcome(aws_subnets, call, <<>>)
            ELSE LET subnets == Subnets(aws_subnets.val)
                 IN  IF ~IsOk(subnets) THEN Outcome(subnets, call, <<>>)
                     ELSE Outcome(subnets, call,
                                  <<Printed("Data plane subnets", subnets.val)>>)

\* checks.rs:173-231; `order` is the vector collected from the set and `fail`
\* whether the subnet query fails.
ips_available_for_data_plane(eks_managed_node_groups, fargate_profiles, self_managed_node_groups, order, fail) ==
  LET subnet_ids == DataPlaneSubnetIds(eks_managed_node_groups, fargate_profiles,
                                       self_managed_node_groups)
  IN  IF ~IsOk(subnet_ids) THEN Outcome(subnet_ids, <<>>, <<>>)
      ELSE
        LET aws_subnets == get_subnets(order, fail)
            call == <<Call("get_subnets", [subnet_ids |-> order], aws_subnets)>>
        IN  IF ~IsOk(aws_subnets) THEN Outcome(aws_subnets, call, <<>>)
            ELSE LET subnets == Subnets(aws_subnets.val)
                 IN  IF ~IsOk(subnets) THEN Outcome(subnets, call, <<>>)
                     ELSE Outcome(subnets, call,
                                  <<Printed("Data plane subnets", subnets.val)>>)

\* A mutant: an absent code is left empty.
NodegroupHealthIssueNoDefault(name, issue) ==
  [name |-> name,
   code |-> IF IsSome(issue.code) THEN issue.code.val ELSE "",
   message |-> IF IsSome(issue.message) THEN issue.message.val ELSE ""]

\* checks.rs:253-259: one record of one issue.
NodegroupHealthIssue(name, issue) ==
  [name |-> name,
   code |-> IF IsSome(issue.code) THEN issue.code.val ELSE "InternalFailure",
   message |-> IF IsSome(issue.message) THEN issue.message.val ELSE ""]

\* The inner loop of checks.rs:252-260.
RECURSIVE IssueLoop(_, _, _, _)
IssueLoop(name, issues, j, health_issues) ==
  IF j > Len(issues) THEN health_issues
  ELSE IssueLoop(name, issues, j + 1,
                 Append(health_issues, NodegroupHealthIssue(name, issues[j])))

\* The loop of checks.rs:248-263 from group i on.
RECURSIVE HealthLoop(_, _, _)
HealthLoop(node_groups, i, health_issues) ==
  IF i > Len(node_groups) THEN Ok(health_issues)
  ELSE
    LET group == node_groups[i] IN
    IF IsNone(group.nodegroup_name) THEN UnwrapNone
    ELSE IF IsSome(group.health) /\ IsSome(group.health.val.issues)
    THEN HealthLoop(node_groups, i + 1,
                    IssueLoop(group.nodegroup_name.val, group.health.val.issues.val,
                              1, health_issues))
    ELSE HealthLoop(node_groups, i + 1, health_issues)

\* A mutant: the check fetches the node groups again before it reads them.
eks_managed_node_group_health_refetch(node_groups) ==
  LET health_issues == HealthLoop(node_groups, 1, <<>>)
      refetch == <<Call("get_eks_managed_node_groups", [cluster_name |-> "cluster"],
                        Ok(Some(node_groups)))>>
  IN  IF ~IsOk(health_issues) THEN Outcome(health_issues, refetch, <<>>)
      ELSE IF health_issues.val = <<>> THEN Outcome(Ok(None), refetch, <<>>)
      ELSE Outcome(Ok(Some(health_issues.val)), refetch,
                   <<Printed("Nodegroup health issues", health_issues.val)>>)

\* A mutant: the list is returned as it is, empty or not.
eks_managed_node_group_health_uncollapsed(node_groups) ==
  LET health_issues == HealthLoop(node_groups, 1, <<>>)
  IN  IF ~IsOk(health_issues) THEN Outcome(health_issues, <<>>, <<>>)
      ELSE Outcome(Ok(Some(health_issues.val)), <<>>,
                   <<Printed("Nodegroup health issues", health_issues.val)>>)

\* checks.rs:243-272.
eks_managed_node_group_health(node_groups) ==
  LET health_issues == HealthLoop(node_groups, 1, <<>>)
  IN  IF ~IsOk(health_issues) THEN Outcome(health_issues, <<>>, <<>>)
      ELSE IF health_issues.val = <<>> THEN Outcome(Ok(None), <<>>, <<>>)
      ELSE Outcome(Ok(Some(health_issues.val)), <<>>,
                   <<Printed("Nodegroup health issues", health_issues.val)>>)

\* parse_minor_version(cluster_version)? + 1 of checks.rs:295 on a u32: at
\* u32::MAX the addition panics in a build with overflow checks and wraps to
\* 0 in a build without.
AddOne(minor, overflow_checks) ==
  IF minor # U32Max THEN Ok(NumSucc(minor))
  ELSE IF overflow_checks THEN Panic("attempt to add with overflow")
  ELSE Ok(<<"0">>)

\* format!("1.{}", ...), checks.rs:295.
TargetVersion(next_minor) == <<"1", ".">> \o FormatU32(next_minor)

\* checks.rs:302-306.
AddonIssues(addon) == IF IsSome(addon.health) THEN addon.health.val.issues ELSE None

\* A mutant: the second lookup asks for the current version again.
TargetLookupVersionCurrent(cluster_version, target_version) == cluster_version

\* The version the second lookup of an add-on asks for, checks.rs:311.
TargetLookupVersion(cluster_version, target_version) == target_version

AddonVersionsCall(name, kubernetes_version, answer) ==
  Call("get_addon_versions", [name |-> name, kubernetes_version |-> kubernetes_version],
       answer)

\* The loop of checks.rs:299-320 from add-on i on.  `made` counts the lookups
\* made so far and the lookup number `fail_at` fails (0: none does).
RECURSIVE AddonLoop(_, _, _, _, _, _, _, _)
AddonLoop(addons, i, cluster_version, target_version, fail_at, made, calls, addon_versions) ==
  IF i > Len(addons) THEN Outcome(Ok(addon_versions), calls, <<>>)
  ELSE
    LET addon == addons[i] IN
    IF IsNone(addon.addon_name) THEN Outcome(UnwrapNone, calls, <<>>)
    ELSE
      LET name == addon.addon_name.val
          issues == AddonIssues(addon)
          current_kubernetes_version ==
            get_addon_versions(name, cluster_version, made + 1 = fail_at)
          calls1 == Append(calls, AddonVersionsCall(name, cluster_version,
                                                    current_kubernetes_version))
          lookup2 == TargetLookupVersion(cluster_version, target_version)
          target_kubnernetes_version ==
            get_addon_versions(name, lookup2, made + 2 = fail_at)
          calls2 == Append(calls1, AddonVersionsCall(name, lookup2,
                                                     target_kubnernetes_version))
      IN  IF ~IsOk(current_kubernetes_version)
          THEN Outcome(current_kubernetes_version, calls1, <<>>)
          ELSE IF ~IsOk(target_kubnernetes_version)
          THEN Outcome(target_kubnernetes_version, calls2, <<>>)
          ELSE IF IsNone(addon.addon_version) THEN Outcome(UnwrapNone, calls2, <<>>)
          ELSE AddonLoop(addons, i + 1, cluster_version, target_version, fail_at,
                         made + 2, calls2,
                         Append(addon_versions,
                                [name |-> name,
                                 version |-> addon.addon_version.val,
                                 current_kubernetes_version |-> current_kubernetes_version.val,
                                 target_kubnernetes_version |-> target_kubnernetes_version.val,
                                 issues |-> issues]))

\* checks.rs:288-330.  `addons` is the answer of aws::get_addons.
update_addon_version(cluster_name, cluster_version, addons, fail_at, overflow_checks) ==
  LET minor == parse_minor_version(cluster_version) IN
  IF ~IsOk(minor) THEN Outcome(minor, <<>>, <<>>)
  ELSE
    LET next_minor == AddOne(minor.val, overflow_checks) IN
    IF ~IsOk(next_minor) THEN Outcome(next_minor, <<>>, <<>>)
    ELSE
      LET target_version == TargetVersion(next_minor.val)
          call == <<Call("get_addons", [cluster_name |-> cluster_name], addons)>>
      IN  IF ~IsOk(addons) THEN Outcome(addons, call, <<>>)
          ELSE
            LET loop == IF IsSome(addons.val)
                        THEN AddonLoop(addons.val.val, 1, cluster_version, target_version,
                                       fail_at, 0, call, <<>>)
                        ELSE Outcome(Ok(<<>>), call, <<>>)
            IN  IF ~IsOk(loop.ret) THEN loop
                ELSE IF loop.ret.val = <<>> THEN Outcome(Ok(None), loop.calls, <<>>)
                ELSE Outcome(Ok(Some(loop.ret.val)), loop.calls,
                             <<Printed("Addon versions", loop.ret.val)>>)

-----------------------------------------------------------------------------
(* The state: one invocation of `entry`, which is `execute` or, to examine  *)
(* a function over more arguments than a run of execute meets, one of the   *)
(* functions of checks.rs called on its own.                                *)

VARIABLES
  entry,                      \* the function invoked
  pc,                         \* the statement of execute about to run, or "done"
  cluster,                    \* execute's argument `cluster`
  nodes,                      \* execute's argument `nodes`
  version,                    \* the argument of a version utility called on its own
  eks_managed_node_groups,    \* checks.rs:27
  self_managed_node_groups,   \* checks.rs:28
  fargate_profiles,           \* checks.rs:30
  calls,                      \* the collector calls made so far, in order
  output,                     \* what has been printed so far, in order
  rets,                       \* the value each function returned, Unset before
  result                      \* what the invocation returned, Unset while it runs

vars ==
  <<entry, pc, cluster, nodes, version, eks_managed_node_groups,
    self_managed_node_groups, fargate_profiles, calls, output, rets, result>>

NoRets ==
  [parse_minor_version |-> Unset,
   normalize_version |-> Unset,
   version_skew |-> Unset,
   ips_available_for_control_plane |-> Unset,
   ips_available_for_data_plane |-> Unset,
   eks_managed_node_group_health |-> Unset,
   update_addon_version |-> Unset]

\* The arguments of a run of execute.
RunClusters == {Cluster(v, <<SubnetA, SubnetB>>) : v \in {V_1_23, V_1_x, V_v1}}

NodeOf(i, v) == Node(i, Some([node_info |-> Some(NodeInfo(v))]))

RunNodeLists ==
  {<<>>,
   <<NodeOf(1, V_v1_23_7_eks)>>,
   <<NodeOf(1, V_v1_22_9), NodeOf(2, V_v1_23_7_eks)>>,
   <<NodeOf(1, V_v1_22_9), Node(2, None)>>,
   <<NodeOf(1, V_v1_23_7_eks), Node(2, Some([node_info |-> None]))>>,
   <<NodeOf(1, V_1_x)>>}

\* What the compute-construct collectors may answer in a run of execute.
RunNodegroups ==
  {None,
   Some(<<>>),
   Some(<<Nodegroup(1, <<SubnetA, SubnetB>>, None)>>),
   Some(<<Nodegroup(1, <<SubnetA, SubnetB>>,
                    Some([issues |-> Some(<<Issue(Some("AccessDenied"), Some("m1"))>>)])),
          Nodegroup(2, <<SubnetB, SubnetC>>,
                    Some([issues |-> Some(<<Issue(None, None)>>)]))>>)}

RunAutoScalingGroups ==
  {None, Some(<<>>), Some(<<AutoScalingGroup(1, <<"a", ",", "c">>)>>)}

RunFargateProfiles ==
  {None, Some(<<>>), Some(<<FargateProfile(1, <<SubnetC>>)>>)}

\* What aws::get_addons may answer.
AddonLists == ListsUpTo(MaxAddons, AddonHealthChoices, Addon)

AddonsAnswers == {CollectorFailure, Ok(None)} \cup {Ok(Some(l)) : l \in AddonLists}

\* The lookups a run over this answer makes when none fails.
Lookups(addons) == IF IsOk(addons) /\ IsSome(addons.val) THEN 2 * Len(addons.val.val) ELSE 0

Init ==
  /\ entry = "execute"
  /\ pc = "start"
  /\ cluster \in RunClusters
  /\ nodes \in RunNodeLists
  /\ version = <<>>
  /\ eks_managed_node_groups = Unset
  /\ self_managed_node_groups = Unset
  /\ fargate_profiles = Unset
  /\ calls = <<>>
  /\ output = <<>>
  /\ rets = NoRets
  /\ result = Unset

\* A mutant: execute goes on to `next` whatever the function returned.
ReturnedGoesOn(name, o, next) ==
  /\ rets' = [rets EXCEPT ![name] = o.ret]
  /\ calls' = calls \o o.calls
  /\ output' = output \o o.out
  /\ IF entry = "execute"
     THEN pc' = next /\ result' = result
     ELSE pc' = "done" /\ result' = o.ret

\* A function returned `o`: execute goes on to `next` when it is Ok and
\* returns what `?` propagates otherwise; a panic unwinds the invocation.
Returned(name, o, next) ==
  /\ rets' = [rets EXCEPT ![name] = o.ret]
  /\ calls' = calls \o o.calls
  /\ output' = output \o o.out
  /\ IF entry = "execute" /\ IsOk(o.ret)
     THEN pc' = next /\ result' = result
     ELSE pc' = "done" /\ result' = o.ret

\* An execute-level collector call answered `answer`, bound to a local.
Fetched(fn, answer, next) ==
  /\ calls' = Append(calls, Call(fn, [cluster_name |-> cluster.name.val], answer))
  /\ IF IsOk(answer)
     THEN pc' = next /\ result' = result
     ELSE pc' = "done" /\ result' = answer
  /\ UNCHANGED <<entry, cluster, nodes, version, output, rets>>

\* checks.rs:19-24: the clients, and the unwraps of the cluster's name and
\* version.
Begin ==
  /\ pc = "start"
  /\ IF IsNone(cluster.name) \/ IsNone(cluster.version)
     THEN pc' = "done" /\ result' = UnwrapNone
     ELSE pc' = "get_eks_managed_node_groups" /\ result' = result
  /\ UNCHANGED <<entry, cluster, nodes, version, eks_managed_node_groups,
                 self_managed_node_groups, fargate_profiles, calls, output, rets>>

\* checks.rs:27.
GetEksManagedNodeGroups ==
  /\ pc = "get_eks_managed_node_groups"
  /\ \E answer \in {CollectorFailure} \cup {Ok(c) : c \in RunNodegroups} :
       /\ Fetched("get_eks_managed_node_groups", answer, "get_self_managed_node_groups")
       /\ eks_managed_node_groups' = IF IsOk(answer) THEN answer.val ELSE Unset
  /\ UNCHANGED <<self_managed_node_groups, fargate_profiles>>

\* checks.rs:28-29.
GetSelfManagedNodeGroups ==
  /\ pc = "get_self_managed_node_groups"
  /\ \E answer \in {CollectorFailure} \cup {Ok(c) : c \in RunAutoScalingGroups} :
       /\ Fetched("get_self_managed_node_groups", answer, "get_fargate_profiles")
       /\ self_managed_node_groups' = IF IsOk(answer) THEN answer.val ELSE Unset
  /\ UNCHANGED <<eks_managed_node_groups, fargate_profiles>>

\* checks.rs:30.
GetFargateProfiles ==
  /\ pc = "get_fargate_profiles"
  /\ \E answer \in {CollectorFailure} \cup {Ok(c) : c \in RunFargateProfiles} :
       /\ Fetched("get_fargate_profiles", answer, "version_skew")
       /\ fargate_profiles' = IF IsOk(answer) THEN answer.val ELSE Unset
  /\ UNCHANGED <<eks_managed_node_groups, self_managed_node_groups>>

Locals == <<eks_managed_node_groups, self_managed_node_groups, fargate_profiles>>
Arguments == <<entry, cluster, nodes, version>>

\* checks.rs:33.
VersionSkew ==
  /\ pc = "version_skew"
  /\ Returned("version_skew", version_skew(cluster.version.val, nodes),
              "ips_available_for_control_plane")
  /\ UNCHANGED <<Arguments, Locals>>

\* checks.rs:34.
IpsAvailableForControlPlane ==
  /\ pc = "ips_available_for_control_plane"
  /\ \E fail \in BOOLEAN :
       Returned("ips_available_for_control_plane",
                ips_available_for_control_plane(cluster, fail),
                "ips_available_for_data_plane")
  /\ UNCHANGED <<Arguments, Locals>>

\* checks.rs:35-41: the check is handed clones of the three locals.
IpsAvailableForDataPlane ==
  /\ pc = "ips_available_for_data_plane"
  /\ \E order \in QueryOrders(eks_managed_node_groups, fargate_profiles,
                              self_managed_node_groups), fail \in BOOLEAN :
       Returned("ips_available_for_data_plane",
                ips_available_for_data_plane(eks_managed_node_groups, fargate_profiles,
                                             self_managed_node_groups, order, fail),
                "eks_managed_node_group_health")
  /\ UNCHANGED <<Arguments, Locals>>

\* checks.rs:43-45: the health check runs when the collection is present.
EksManagedNodeGroupHealth ==
  /\ pc = "eks_managed_node_group_health"
  /\ IF IsSome(eks_managed_node_groups)
     THEN Returned("eks_managed_node_group_health",
                   eks_managed_node_group_health(eks_managed_node_groups.val),
                   "update_addon_version")
     ELSE /\ pc' = "update_addon_version"
          /\ UNCHANGED <<calls, output, rets, result>>
  /\ UNCHANGED <<Arguments, Locals>>

\* checks.rs:47.
UpdateAddonVersion ==
  /\ pc = "update_addon_version"
  /\ \E addons \in AddonsAnswers, overflow_checks \in BOOLEAN :
       \E fail_at \in 0..Lookups(addons) :
         Returned("update_addon_version",
                  update_addon_version(cluster.name.val, cluster.version.val, addons,
                                       fail_at, overflow_checks),
                  "return")
  /\ UNCHANGED <<Arguments, Locals>>

\* checks.rs:49.
Return ==
  /\ pc = "return"
  /\ pc' = "done"
  /\ result' = Ok("()")
  /\ UNCHANGED <<Arguments, Locals, calls, output, rets>>

Next ==
  \/ Begin
  \/ GetEksManagedNodeGroups
  \/ GetSelfManagedNodeGroups
  \/ GetFargateProfiles
  \/ VersionSkew
  \/ IpsAvailableForControlPlane
  \/ IpsAvailableForDataPlane
  \/ EksManagedNodeGroupHealth
  \/ UpdateAddonVersion
  \/ Return

Spec == Init /\ [][Next]_vars

-----------------------------------------------------------------------------
(* A function of checks.rs called on its own, over bounded sets of          *)
(* arguments.                                                               *)

Alphabet == {"v", "1", "2", ".", "-"}

\* Versions beyond the strings of at most MaxStr characters of the alphabet,
\* the example of checks.rs:54 in short among them.
VersionFixtures ==
         {V_v1_23_7_eks, V_v1_22_9, V_1_x,
          <<"1", ".", "+", "2">>, <<"1", ".", "0", "2">>, <<"v", "v", "1", ".", "2">>,
          <<"1", ".", "4", "2", "9", "4", "9", "6", "7", "2", "9", "5">>,
          <<"1", ".", "4", "2", "9", "4", "9", "6", "7", "2", "9", "6">>}

\* The collections handed to the data-plane check.
NodegroupCollections ==
  {None} \cup {Some(l) : l \in ListsUpTo(MaxGroups, {<<SubnetA, SubnetB>>, <<SubnetB, SubnetC>>},
                                        LAMBDA i, c : Nodegroup(i, c, None))}

AutoScalingGroupCollections ==
  {None} \cup {Some(l) : l \in ListsUpTo(MaxGroups, {<<"a", ",", "b">>, <<"c", ",">>},
                                        AutoScalingGroup)}

FargateProfileCollections ==
  {None} \cup {Some(l) : l \in ListsUpTo(MaxGroups, {<<SubnetA>>, <<SubnetC, SubnetA>>},
                                        FargateProfile)}

Idle ==
  /\ calls = <<>>
  /\ output = <<>>
  /\ rets = NoRets
  /\ result = Unset

NoLocals ==
  /\ eks_managed_node_groups = Unset
  /\ self_managed_node_groups = Unset
  /\ fargate_profiles = Unset

InitVersion ==
  /\ entry \in {"parse_minor_version", "normalize_version"}
  /\ \/ \E n \in 0..MaxStr : version \in [1..n -> Alphabet]
     \/ version \in VersionFixtures
  /\ cluster = Cluster(V_1_23, <<>>)
  /\ nodes = <<>>
  /\ NoLocals

InitVersionSkew ==
  /\ entry = "version_skew"
  /\ version = <<>>
  /\ cluster \in {Cluster(v, <<>>) : v \in ControlPlaneVersions}
  /\ \E n \in 0..MaxNodes : nodes \in ListsOf(n, NodeStatusChoices, Node)
  /\ NoLocals

InitDataPlane ==
  /\ entry = "ips_available_for_data_plane"
  /\ version = <<>>
  /\ cluster = Cluster(V_1_23, <<>>)
  /\ nodes = <<>>
  /\ eks_managed_node_groups \in NodegroupCollections
  /\ self_managed_node_groups \in AutoScalingGroupCollections
  /\ fargate_profiles \in FargateProfileCollections

InitHealth ==
  /\ entry = "eks_managed_node_group_health"
  /\ version = <<>>
  /\ cluster = Cluster(V_1_23, <<>>)
  /\ nodes = <<>>
  /\ \E n \in 0..MaxGroups :
       eks_managed_node_groups \in
         {Some(l) : l \in ListsOf(n, HealthChoices,
                                  LAMBDA i, c : Nodegroup(i, <<SubnetA>>, c))}
  /\ self_managed_node_groups = Unset
  /\ fargate_profiles = Unset

InitAddons ==
  /\ entry = "update_addon_version"
  /\ version = <<>>
  /\ cluster \in {Cluster(v, <<>>) : v \in ControlPlaneVersions \cup {V_2_5}}
  /\ nodes = <<>>
  /\ NoLocals

InitUnit ==
  /\ \/ InitVersion
     \/ InitVersionSkew
     \/ InitDataPlane
     \/ InitHealth
     \/ InitAddons
  /\ pc = entry
  /\ Idle

\* parse_minor_version called on `version`.
ParseMinorVersion ==
  /\ pc = "parse_minor_version"
  /\ Returned("parse_minor_version", Outcome(parse_minor_version(version), <<>>, <<>>),
              "done")
  /\ UNCHANGED <<Arguments, Locals>>

\* normalize_version called on `version`.
NormalizeVersion ==
  /\ pc = "normalize_version"
  /\ Returned("normalize_version", Outcome(normalize_version(version), <<>>, <<>>),
              "done")
  /\ UNCHANGED <<Arguments, Locals>>

NextUnit ==
  \/ ParseMinorVersion
  \/ NormalizeVersion
  \/ VersionSkew
  \/ IpsAvailableForDataPlane
  \/ EksManagedNodeGroupHealth
  \/ UpdateAddonVersion

SpecUnit == InitUnit /\ [][NextUnit]_vars

-----------------------------------------------------------------------------
(* Properties.                                                              *)

Ran(name) == rets[name].tag # "Unset"

\* The node carries a kubelet version and it parses.
NodeParses(node) ==
  /\ IsSome(node.status)
  /\ IsSome(node.status.val.node_info)
  /\ IsOk(parse_minor_version(node.status.val.node_info.val.kubelet_version))

MinorOf(node) == parse_minor_version(node.status.val.node_info.val.kubelet_version).val

\* The nodes whose minor version differs from the control plane's, in the
\* order of the input.
Mismatched ==
  SelectSeq(nodes, LAMBDA n : MinorOf(n) # parse_minor_version(cluster.version.val).val)

SkewInputParses ==
  /\ IsOk(parse_minor_version(cluster.version.val))
  /\ \A i \in 1..Len(nodes) : NodeParses(nodes[i])

\* C1: when the control-plane version and every node's version parse,
\* version_skew returns None exactly when no node's minor version differs
\* from the control plane's, and otherwise Some list holding one record per
\* differing node, and no other, in the order of the input.
C1_VersionSkewExact ==
  (Ran("version_skew") /\ SkewInputParses) =>
    LET ret == rets.version_skew IN
    /\ IsOk(ret)
    /\ IsNone(ret.val) <=> (\A i \in 1..Len(nodes) :
                              MinorOf(nodes[i]) = parse_minor_version(cluster.version.val).val)
    /\ IsNone(ret.val) <=> (Mismatched = <<>>)
    /\ IsSome(ret.val) =>
         /\ Len(ret.val.val) = Len(Mismatched)
         /\ \A k \in 1..Len(Mismatched) :
              /\ ret.val.val[k].name = Mismatched[k].metadata.name.val
              /\ ret.val.val[k].kublet_version =
                   Mismatched[k].status.val.node_info.val.kubelet_version
              /\ ret.val.val[k].control_plane_version = cluster.version.val

\* C1 witness: of two nodes only the second is skewed, and it alone is
\* reported.
C1_Witness ==
  /\ entry = "version_skew"
  /\ Ran("version_skew")
  /\ SkewInputParses
  /\ Len(nodes) = 2
  /\ Len(Mismatched) = 1
  /\ IsOk(rets.version_skew) /\ IsSome(rets.version_skew.val)
  /\ rets.version_skew.val.val[1].name = nodes[2].metadata.name.val

\* The calls of one collector, in order.
CallsOf(fn) == SelectSeq(calls, LAMBDA c : c.fn = fn)

\* The segments of a delimited string, said without splitting it: the
\* stretches free of commas that a comma or an end of the string bounds on
\* both sides.
Segments(s) ==
  {SubSeq(s, i, j) : <<i, j>> \in
     {p \in (1..(Len(s) + 1)) \X (0..Len(s)) :
        /\ p[2] >= p[1] - 1
        /\ p[1] = 1 \/ s[p[1] - 1] = ","
        /\ p[2] = Len(s) \/ s[p[2] + 1] = ","
        /\ \A k \in p[1]..p[2] : s[k] # ","}}

SubnetsOfAll(collection) ==
  IF IsSome(collection)
  THEN UNION {Range(collection.val[i].subnets.val) : i \in 1..Len(collection.val)}
  ELSE {}

\* Every subnet identifier a compute construct refers to.
Referenced ==
  SubnetsOfAll(eks_managed_node_groups)
    \cup SubnetsOfAll(fargate_profiles)
    \cup (IF IsSome(self_managed_node_groups)
          THEN UNION {Segments(self_managed_node_groups.val[i].vpc_zone_identifier.val) :
                        i \in 1..Len(self_managed_node_groups.val)}
          ELSE {})

\* The references, counted with their repetitions, of the managed node
\* groups and the Fargate profiles.
RECURSIVE References(_, _)
References(groups, i) ==
  IF i > Len(groups) THEN 0
  ELSE Len(groups[i].subnets.val) + References(groups, i + 1)

\* The subnet query of the data-plane check: the last subnet query made.
DataPlaneQuery == CallsOf("get_subnets")[Len(CallsOf("get_subnets"))]

\* C2: whatever collections are present, ips_available_for_data_plane makes
\* exactly one subnet query, and the identifiers of that query are the
\* identifiers the compute constructs refer to (a self-managed group's string
\* taken apart at its commas), each of them once.
C2_OneQueryForTheUnion ==
  Ran("ips_available_for_data_plane") =>
    /\ Len(CallsOf("get_subnets")) =
         1 + (IF Ran("ips_available_for_control_plane") THEN 1 ELSE 0)
    /\ Range(DataPlaneQuery.arg.subnet_ids) = Referenced
    /\ Len(DataPlaneQuery.arg.subnet_ids) = Cardinality(Referenced)

\* C2 witness: two node groups and a Fargate profile refer to subnets five
\* times, two of the three identifiers shared, and the one query names three.
C2_Witness ==
  /\ entry = "ips_available_for_data_plane"
  /\ Ran("ips_available_for_data_plane")
  /\ IsSome(eks_managed_node_groups) /\ Len(eks_managed_node_groups.val) = 2
  /\ IsSome(fargate_profiles) /\ Len(fargate_profiles.val) = 1
  /\ IsNone(self_managed_node_groups)
  /\ References(eks_managed_node_groups.val, 1) + References(fargate_profiles.val, 1) = 5
  /\ Len(calls) = 1
  /\ Len(DataPlaneQuery.arg.subnet_ids) = 3

\* A Finding in the absent-or-non-empty form.
Collapsed(ret) == IsOk(ret) => (IsNone(ret.val) \/ (IsSome(ret.val) /\ ret.val.val # <<>>))

\* The health issues the node groups carry, counted.
IssuesOf(group) ==
  IF IsSome(group.health) /\ IsSome(group.health.val.issues)
  THEN group.health.val.issues.val
  ELSE <<>>

RECURSIVE IssuesBefore(_, _)
IssuesBefore(groups, i) ==
  IF i <= 1 THEN 0 ELSE Len(IssuesOf(groups[i - 1])) + IssuesBefore(groups, i - 1)

\* C4: none of the three Finding-returning checks returns Some of an empty
\* list: a check that accumulated nothing returns None, and a Some holds at
\* least one record.
C4_NeverSomeEmpty ==
  /\ Collapsed(rets.version_skew)
  /\ Collapsed(rets.eks_managed_node_group_health)
  /\ Collapsed(rets.update_addon_version)
  /\ (Ran("version_skew") /\ SkewInputParses /\ Mismatched = <<>>) =>
       rets.version_skew = Ok(None)
  /\ (Ran("eks_managed_node_group_health")
        /\ IssuesBefore(eks_managed_node_groups.val, Len(eks_managed_node_groups.val) + 1) = 0) =>
       rets.eks_managed_node_group_health = Ok(None)
  /\ (Ran("update_addon_version") /\ IsOk(rets.update_addon_version)
        /\ Len(CallsOf("get_addon_versions")) = 0) =>
       rets.update_addon_version = Ok(None)

\* C4 witness: node groups are given, none has an issue, and the health
\* check returns None.
C4_Witness ==
  /\ entry = "eks_managed_node_group_health"
  /\ Ran("eks_managed_node_group_health")
  /\ Len(eks_managed_node_groups.val) = 2
  /\ eks_managed_node_groups.val[1].health = Some([issues |-> Some(<<>>)])
  /\ eks_managed_node_groups.val[2].health = None
  /\ rets.eks_managed_node_group_health = Ok(None)

\* C5: eks_managed_node_group_health never fails; it returns None when no
\* group has an issue (no health block, no issue list or an empty one), and
\* otherwise one record per issue, group by group and issue by issue, each
\* with its group's name, an absent code read as InternalFailure and an
\* absent message as the empty string.
C5_HealthExact ==
  Ran("eks_managed_node_group_health") =>
    LET groups == eks_managed_node_groups.val
        ret == rets.eks_managed_node_group_health
        total == IssuesBefore(groups, Len(groups) + 1)
    IN  /\ IsOk(ret)
        /\ IsNone(ret.val) <=> (total = 0)
        /\ IsSome(ret.val) =>
             /\ Len(ret.val.val) = total
             /\ \A i \in 1..Len(groups) : \A j \in 1..Len(IssuesOf(groups[i])) :
                  LET issue == IssuesOf(groups[i])[j]
                      record == ret.val.val[IssuesBefore(groups, i) + j]
                  IN  /\ record.name = groups[i].nodegroup_name.val
                      /\ record.code = (IF IsNone(issue.code) THEN "InternalFailure"
                                        ELSE issue.code.val)
                      /\ record.message = (IF IsNone(issue.message) THEN ""
                                           ELSE issue.message.val)

\* C5 witness: a group with two issues, the second without code and message,
\* yields both, the second as InternalFailure with an empty message.
C5_Witness ==
  /\ entry = "eks_managed_node_group_health"
  /\ Ran("eks_managed_node_group_health")
  /\ Len(eks_managed_node_groups.val) = 1
  /\ IssuesOf(eks_managed_node_groups.val[1]) =
       <<Issue(Some("AccessDenied"), Some("m1")), Issue(None, None)>>
  /\ IsOk(rets.eks_managed_node_group_health)
  /\ IsSome(rets.eks_managed_node_group_health.val)
  /\ Len(rets.eks_managed_node_group_health.val.val) = 2
  /\ rets.eks_managed_node_group_health.val.val[2].code = "InternalFailure"
  /\ rets.eks_managed_node_group_health.val.val[2].message = ""

\* What aws::get_addons answered in this invocation, and the add-ons it
\* listed (none when it answered None).
AddonsAnswer == CallsOf("get_addons")[1].answer

Installed ==
  IF IsOk(AddonsAnswer) /\ IsSome(AddonsAnswer.val) THEN AddonsAnswer.val.val ELSE <<>>

\* The version the cluster is upgraded to: "1." and the current minor plus 1.
UpgradeTarget == <<"1", ".">> \o NumSucc(parse_minor_version(cluster.version.val).val)

\* C6: update_addon_version looks up every installed add-on exactly twice,
\* first for the cluster's current version and then for the target version,
\* so that a run over N add-ons in which no call fails makes 2N lookups; and
\* where at least one add-on is installed and every call succeeds it returns
\* Some list of one record per add-on, in input order, with the installed
\* version, the two answers and the add-on's health issues.
C6_TwoLookupsPerAddon ==
  (Ran("update_addon_version") /\ CallsOf("get_addons") # <<>>) =>
    LET ret == rets.update_addon_version
        lookups == CallsOf("get_addon_versions")
        n == Len(Installed)
    IN  /\ Len(CallsOf("get_addons")) = 1
        /\ Len(lookups) <= 2 * n
        /\ \A k \in 1..Len(lookups) :
             /\ lookups[k].arg.name = Installed[(k + 1) \div 2].addon_name.val
             /\ lookups[k].arg.kubernetes_version =
                  (IF k % 2 = 1 THEN cluster.version.val ELSE UpgradeTarget)
        /\ IsOk(ret) => Len(lookups) = 2 * n
        /\ (IsOk(ret) /\ n >= 1) =>
             /\ IsSome(ret.val)
             /\ Len(ret.val.val) = n
             /\ \A i \in 1..n :
                  /\ ret.val.val[i].name = Installed[i].addon_name.val
                  /\ ret.val.val[i].version = Installed[i].addon_version.val
                  /\ ret.val.val[i].current_kubernetes_version = lookups[2 * i - 1].answer.val
                  /\ ret.val.val[i].target_kubnernetes_version = lookups[2 * i].answer.val
                  /\ ret.val.val[i].issues =
                       (IF IsSome(Installed[i].health) THEN Installed[i].health.val.issues
                        ELSE None)
        /\ (~IsOk(ret) /\ IsOk(AddonsAnswer)) =>
             /\ Len(lookups) >= 1
             /\ lookups[Len(lookups)].answer = CollectorFailure

\* C6 witness: two add-ons, the second with health issues, four lookups and
\* a finding of two records.
C6_Witness ==
  /\ entry = "update_addon_version"
  /\ Ran("update_addon_version")
  /\ CallsOf("get_addons") # <<>>
  /\ Len(Installed) = 2
  /\ IsSome(Installed[2].health) /\ IsSome(Installed[2].health.val.issues)
  /\ Len(CallsOf("get_addon_versions")) = 4
  /\ IsOk(rets.update_addon_version)
  /\ IsSome(rets.update_addon_version.val)
  /\ Len(rets.update_addon_version.val.val) = 2
  /\ IsSome(rets.update_addon_version.val.val[2].issues)

AllDigits(s) == s # <<>> /\ \A i \in 1..Len(s) : s[i] \in Digits

\* The positions of the dots of the version handed to a version utility.
Dots == {i \in 1..Len(version) : version[i] = "."}

FirstDot == CHOOSE i \in Dots : \A j \in Dots : i <= j

\* The second dot-separated segment, said without splitting: what lies
\* between the first dot and the next dot or the end.
SecondSegment ==
  LET after == {j \in Dots : j > FirstDot}
      stop == IF after = {} THEN Len(version) + 1
              ELSE CHOOSE j \in after : \A k \in after : j <= k
  IN  SubSeq(version, FirstDot + 1, stop - 1)

\* C7, as claimed: parse_minor_version returns the second segment as a number
\* when that segment is numeric, whatever follows it, and an error value,
\* never a crash and never a number, when the string has fewer than two
\* segments or its second segment is not numeric.
C7_ParseOrError ==
  Ran("parse_minor_version") =>
    LET ret == rets.parse_minor_version IN
    IF Dots # {} /\ AllDigits(SecondSegment)
    THEN IsOk(ret) /\ ret.val = StripZeros(SecondSegment)
    ELSE IsErr(ret)

\* The version has the form vMAJOR.MINOR.rest with MAJOR and MINOR numerals,
\* its second dot at position j.
HasForm(j) ==
  /\ Len(version) >= 1 /\ version[1] = "v"
  /\ FirstDot < j /\ j \in Dots
  /\ AllDigits(SubSeq(version, 2, FirstDot - 1))
  /\ AllDigits(SubSeq(version, FirstDot + 1, j - 1))

\* C8: normalize_version turns vMAJOR.MINOR.patch-suffix into MAJOR.MINOR,
\* and normalizing a result of normalize_version returns it unchanged.
C8_NormalizeFormAndIdempotent ==
  Ran("normalize_version") =>
    LET ret == rets.normalize_version IN
    /\ \A j \in Dots : HasForm(j) => ret = Ok(SubSeq(version, 2, j - 1))
    /\ IsOk(ret) => normalize_version(ret.val) = ret

\* C8 witness: the example of checks.rs:65 in short, v1.23.7-eks, becomes
\* 1.23.
C8_Witness ==
  /\ entry = "normalize_version"
  /\ Ran("normalize_version")
  /\ version = V_v1_23_7_eks
  /\ \E j \in Dots : HasForm(j)
  /\ rets.normalize_version = Ok(V_1_23)

\* Some collector call of this invocation failed.
CollectorFailed == \E k \in 1..Len(calls) : ~IsOk(calls[k].answer)

\* C3, as claimed: when a collector call fails, the run ends with that error
\* after the failing call, and nothing has been printed by then, whatever
\* checks completed before it.
C3_NoOutputBeforeFailure ==
  (entry = "execute" /\ CollectorFailed) =>
    /\ pc = "done"
    /\ result = CollectorFailure
    /\ ~IsOk(calls[Len(calls)].answer)
    /\ output = <<>>

\* A node without status, or with a status without node_info.
Incomplete(node) == IsNone(node.status) \/ IsNone(node.status.val.node_info)

\* C9, as claimed: when a node of the input lacks its status or its
\* node-info (the control-plane version being one that parses), version_skew
\* does not pass over the node: it yields no finding and returns an error,
\* which execute returns in its turn.
C9_MissingFieldIsError ==
  (entry = "execute" /\ Ran("version_skew")
     /\ IsOk(parse_minor_version(cluster.version.val))
     /\ \E i \in 1..Len(nodes) : Incomplete(nodes[i])) =>
    /\ IsErr(rets.version_skew)
    /\ output = <<>>
    /\ pc = "done"
    /\ result = rets.version_skew

ComputeCollectors ==
  {"get_eks_managed_node_groups", "get_self_managed_node_groups", "get_fargate_profiles"}

\* The first check is about to start, or has started.
ChecksReached == pc = "version_skew" \/ Ran("version_skew")

\* C10, as claimed: by the end of every run each compute-construct collector
\* has been called exactly once.
C10_ExactlyOnceInEveryRun ==
  (entry = "execute" /\ pc = "done") =>
    \A fn \in ComputeCollectors : Len(CallsOf(fn)) = 1

\* C10, amended: in every run each compute-construct collector is called at
\* most once and never by a check; in a run that reaches the checks each has
\* been called exactly once before the first check starts, the three calls
\* being the first three of the run, and the checks are handed what those
\* calls answered.
C10_CollectorsOnceBeforeChecks ==
  entry = "execute" =>
    /\ \A fn \in ComputeCollectors : Len(CallsOf(fn)) <= 1
    /\ \A k \in 1..Len(calls) : calls[k].fn \in ComputeCollectors => k <= 3
    /\ ChecksReached =>
         /\ \A fn \in ComputeCollectors : Len(CallsOf(fn)) = 1
         /\ eks_managed_node_groups = CallsOf("get_eks_managed_node_groups")[1].answer.val
         /\ self_managed_node_groups = CallsOf("get_self_managed_node_groups")[1].answer.val
         /\ fargate_profiles = CallsOf("get_fargate_profiles")[1].answer.val
    /\ Ran("ips_available_for_data_plane") =>
         Range(DataPlaneQuery.arg.subnet_ids) = Referenced
    /\ Ran("eks_managed_node_group_health") =>
         /\ IsSome(eks_managed_node_groups)
         /\ IsOk(rets.eks_managed_node_group_health)
         /\ IsNone(rets.eks_managed_node_group_health.val) <=>
              IssuesBefore(eks_managed_node_groups.val,
                           Len(eks_managed_node_groups.val) + 1) = 0

\* C10 witness: a run that went through every check and returned Ok, with
\* node groups, a self-managed group and a Fargate profile fetched.
C10_Witness ==
  /\ entry = "execute"
  /\ pc = "done"
  /\ result = Ok("()")
  /\ \A name \in {"version_skew", "ips_available_for_control_plane",
                  "ips_available_for_data_plane", "eks_managed_node_group_health",
                  "update_addon_version"} : Ran(name)
  /\ IsSome(eks_managed_node_groups) /\ Len(eks_managed_node_groups.val) = 2
  /\ IsSome(self_managed_node_groups) /\ Len(self_managed_node_groups.val) = 1
  /\ IsSome(fargate_profiles) /\ Len(fargate_profiles.val) = 1
  /\ \A fn \in ComputeCollectors : Len(CallsOf(fn)) = 1

\* A collection the collectors answered that holds no compute construct.
NoConstruct(collection) == collection = None \/ collection = Some(<<>>)

\* None of the three compute-construct collections of the run holds a
\* construct.
NoCompute ==
  /\ NoConstruct(eks_managed_node_groups)
  /\ NoConstruct(self_managed_node_groups)
  /\ NoConstruct(fargate_profiles)

\* The run is past checks.rs:43-45.
HealthPassed == pc \in {"update_addon_version", "return"} \/ Ran("update_addon_version")

\* The cluster's subnet identifiers, checks.rs:145-150.
ClusterSubnetIds == cluster.resources_vpc_config.val.subnet_ids.val

TargetsAsked ==
  {CallsOf("get_addon_versions")[k].arg.kubernetes_version :
     k \in {k \in 1..Len(CallsOf("get_addon_versions")) : k % 2 = 0}}

\* C12, as claimed: the version update_addon_version looks add-ons up for,
\* beside the current one, is "1." followed by the current minor plus one,
\* whatever the current major; and a current version whose minor does not
\* parse makes it return an error with no add-on fetched or looked up.
C12_TargetIsNextMinor ==
  (entry = "update_addon_version" /\ Ran("update_addon_version")) =>
    IF IsOk(parse_minor_version(cluster.version.val))
    THEN TargetsAsked \subseteq {UpgradeTarget}
    ELSE IsErr(rets.update_addon_version) /\ calls = <<>>

\* The checks of execute in the order of checks.rs:33-47.
Checks ==
  <<"version_skew", "ips_available_for_control_plane", "ips_available_for_data_plane",
    "eks_managed_node_group_health", "update_addon_version">>

\* Check i is the health check of a run whose managed node group collection
\* is absent.
Skipped(i) == Checks[i] = "eks_managed_node_group_health" /\ eks_managed_node_groups = None

\* The checks that returned something other than Ok.
FailedChecks == {i \in 1..Len(Checks) : Ran(Checks[i]) /\ ~IsOk(rets[Checks[i]])}

\* The place of a collector in the order of execute: the compute-construct
\* collectors, the subnet queries of the two subnet checks, the add-on list,
\* the add-on lookups.
Rank(fn) ==
  CASE fn \in ComputeCollectors -> 0
    [] fn = "get_subnets" -> 1
    [] fn = "get_addons" -> 2
    [] fn = "get_addon_versions" -> 3

\* The check that prints under a label: checks.rs:124, 167, 228, 269, 327.
LabelRank(label) ==
  CASE label = "Skewed node versions" -> 1
    [] label = "Conctrol plane subnets" -> 2
    [] label = "Data plane subnets" -> 3
    [] label = "Nodegroup health issues" -> 4
    [] label = "Addon versions" -> 5

\* The checks ran in the order of Checks, each after every step before it
\* succeeded, and the first step that failed ended the run with its error.
C13_Order ==
  entry = "execute" =>
    /\ \A i \in 1..Len(Checks) :
         Ran(Checks[i]) =>
           /\ ~Skipped(i)
           /\ \A fn \in ComputeCollectors :
                Len(CallsOf(fn)) = 1 /\ IsOk(CallsOf(fn)[1].answer)
           /\ \A j \in 1..(i - 1) :
                IF Skipped(j) THEN ~Ran(Checks[j]) ELSE IsOk(rets[Checks[j]])
    /\ \A k, l \in 1..Len(calls) : k < l => Rank(calls[k].fn) <= Rank(calls[l].fn)
    /\ Len(CallsOf("get_subnets")) =
         Cardinality({c \in {"ips_available_for_control_plane",
                             "ips_available_for_data_plane"} : Ran(c)})
    /\ Len(CallsOf("get_addons")) = IF Ran("update_addon_version") THEN 1 ELSE 0
    /\ \A k, l \in 1..Len(output) :
         k < l => LabelRank(output[k].label) < LabelRank(output[l].label)
    /\ \A k \in 1..Len(output) : IsOk(rets[Checks[LabelRank(output[k].label)]])
    /\ Cardinality(FailedChecks) <= 1
    /\ \A i \in FailedChecks :
         /\ pc = "done"
         /\ result = rets[Checks[i]]
         /\ \A j \in (i + 1)..Len(Checks) : ~Ran(Checks[j])
    /\ \A k \in 1..Len(calls) :
         ~IsOk(calls[k].answer) =>
           /\ k = Len(calls)
           /\ pc = "done"
           /\ result = calls[k].answer
    /\ (pc = "done" /\ IsOk(result)) =>
         \A i \in 1..Len(Checks) :
           IF Skipped(i) THEN ~Ran(Checks[i]) ELSE IsOk(rets[Checks[i]])
    /\ (pc = "done" /\ ~IsOk(result)) =>
         \/ FailedChecks # {}
         \/ calls # <<>> /\ ~IsOk(calls[Len(calls)].answer)

\* A step of execute runs at most one check, a check that has not run, and
\* makes collector calls only in running a check or in fetching a collection.
C13_OneAtATime ==
  entry = "execute" =>
    /\ \A i \in 1..Len(Checks) : Ran(Checks[i]) => rets'[Checks[i]] = rets[Checks[i]]
    /\ Cardinality({i \in 1..Len(Checks) : rets'[Checks[i]] # rets[Checks[i]]}) <= 1
    /\ pc = "done" => UNCHANGED vars

\* C13: in a run of execute the checks run one at a time in the order
\* version skew, control-plane subnets, data-plane subnets, managed node
\* group health (when the collection is present), add-on versions; a check
\* starts only after every earlier step succeeded; after the first step that
\* fails no check runs and no collector is called, and the run ends with
\* that step's error.
C13_SequentialFailFast == []C13_Order /\ [][C13_OneAtATime]_vars

\* C13 witness: a run in which version_skew succeeded, the subnet query of
\* the control-plane check failed, and nothing ran after it.
C13_Witness ==
  /\ entry = "execute"
  /\ pc = "done"
  /\ IsOk(rets.version_skew)
  /\ rets.ips_available_for_control_plane = CollectorFailure
  /\ result = CollectorFailure
  /\ Len(calls) = 4
  /\ ~Ran("ips_available_for_data_plane")
  /\ ~Ran("eks_managed_node_group_health")
  /\ ~Ran("update_addon_version")

====
